---- MODULE Spec2Model ----
(***************************************************************************)
(* CalTrack credential and session security subsystem.                     *)
(*                                                                         *)
(* The model follows AuthContext (AuthProvider), utils/crypto.js and the   *)
(* auth helpers of utils/db.js.  Every `await` of an async function is a   *)
(* suspension point: the effect of the awaited operation (an IndexedDB     *)
(* read or write, a key derivation, a cipher call) and the synchronous     *)
(* code that follows it up to the next `await` form one atomic step.       *)
(* React state setters are taken to apply in the step that calls them.     *)
(*                                                                         *)
(* JavaScript null/undefined are written  null  for object and base64      *)
(* typed values,  NoString  for string typed values and  NoTime  for       *)
(* timestamps (all three are falsy in the source's tests).                 *)
(***************************************************************************)
EXTENDS Integers, Sequences, FiniteSets, TLC

\* ---------------------------------------------------------------- constants
SESSION_TIMEOUT == 30 * 60 * 1000
LOCKOUT_DURATION == 30 * 1000
MAX_FAILED_ATTEMPTS == 5
TAB_BLUR_TIMEOUT == 5 * 60 * 1000
PBKDF2_ITERATIONS == 100000

\* ------------------------------------------------------------------- bounds
\* The clock advances in steps of TickStep milliseconds, at most MaxTicks times.
MaxTicks == 1
\* the history counter failStreak saturates at StreakCap
StreakCap == 6
TickStep == LOCKOUT_DURATION
StartTime == TickStep

\* Input domains: well-formed strings typed by the user and values drawn
\* from crypto.getRandomValues / the platform authenticator.
Passwords == {"hunter22", "wrong"}
Secrets == {"sk-abc123", "sk-xyz789"}
\* generateSalt() / generateIV() return fresh random bytes: the n-th value
\* drawn is written n; at most MaxSalts salts and MaxIVs IVs are drawn.
MaxSalts == 2
MaxIVs == 1
\* setTimeout hands out the ids 1, 2, ...: at most MaxTimers timers are set
MaxTimers == 3
\* the session clock advances in steps of ElapseStep, at most MaxElapse times
MaxElapse == 7
ElapseStep == TAB_BLUR_TIMEOUT
\* the lockout clock advances in steps of WaitStep, at most MaxWaits times
MaxWaits == 3
WaitStep == LOCKOUT_DURATION \div 2
CredentialIds == {"cred1"}
Slots == {1, 2}
\* the slot of the specifications whose calls never overlap
Serial == {1}

null == [null |-> TRUE]
NoString == "<null>"
NoTime == 0
NoTimer == 0

\* ------------------------------------------------------------ utils/crypto
bufferToBase64(buffer) == [b64 |-> buffer]

base64ToBuffer(base64) == base64.b64

\* atob throws on a value that is not base64 (undefined/null fields)
IsBase64(x) == DOMAIN x = {"b64"}

TextEncode(s) == [utf8 |-> s]

TextDecode(bytes) == bytes.utf8

\* PBKDF2-SHA256: the derived bits depend on password, salt and iterations;
\* an AES-GCM key takes 256 of them, an HMAC-SHA256 key the default 512.
deriveKey(password, salt, usage) ==
  [ pbkdf2 |-> <<TextEncode(password), salt, PBKDF2_ITERATIONS>>,
    alg    |-> IF usage = "encrypt" THEN "AES-GCM" ELSE "HMAC",
    bits   |-> IF usage = "encrypt" THEN 256 ELSE 512 ]

hashPassword(password, salt) ==
  [ hash |-> bufferToBase64(deriveKey(password, salt, "hash")),
    salt |-> bufferToBase64(salt) ]

\* "throw" when base64ToBuffer(storedSalt) throws, else the comparison
verifyPassword(password, storedHash, storedSalt) ==
  IF ~IsBase64(storedSalt) THEN "throw"
  ELSE IF hashPassword(password, base64ToBuffer(storedSalt)).hash = storedHash
       THEN "valid" ELSE "invalid"

AesGcmEncrypt(key, iv, data) == [gcm |-> data, key |-> key, iv |-> iv]

\* an encryption under the key derived for hashing
encryptData_HashKey(plaintext, password, salt, iv) ==
  [ encrypted |-> bufferToBase64(
        AesGcmEncrypt(deriveKey(password, base64ToBuffer(salt), "hash"),
                      iv, TextEncode(plaintext))),
    iv |-> bufferToBase64(iv) ]

\* iv is the value of generateIV() for this call
encryptData(plaintext, password, salt, iv) ==
  [ encrypted |-> bufferToBase64(
        AesGcmEncrypt(deriveKey(password, base64ToBuffer(salt), "encrypt"),
                      iv, TextEncode(plaintext))),
    iv |-> bufferToBase64(iv) ]

\* [ok |-> FALSE] when atob or crypto.subtle.decrypt throws (tag mismatch)
decryptData(encrypted, iv, password, salt) ==
  IF ~IsBase64(salt) \/ ~IsBase64(iv) \/ ~IsBase64(encrypted)
  THEN [ok |-> FALSE, value |-> NoString]
  ELSE LET key == deriveKey(password, base64ToBuffer(salt), "encrypt")
           ct  == base64ToBuffer(encrypted)
       IN IF ct.key = key /\ ct.iv = base64ToBuffer(iv)
          THEN [ok |-> TRUE, value |-> TextDecode(ct.gcm)]
          ELSE [ok |-> FALSE, value |-> NoString]

\* ------------------------------------------------------------------ state
VARIABLES
  now,               \* Date.now()
  auth,              \* db.auth.get('main'): the persisted AuthRecord or null
  dailyEntries,      \* db.dailyEntries (keys of the stored rows)
  exerciseHistory,   \* db.exerciseHistory (keys of the stored rows)
  session,           \* sessionStorage[SESSION_KEY]: [expiresAt] or null
  authState,         \* useState: isLoading, needsSetup, isAuthenticated, authData
  decryptedApiKey,   \* useState: decrypted API key, memory only
  currentPassword,   \* useState: raw password, memory only
  calls,             \* in-flight / completed calls of the context's async functions
  init,              \* the initAuth effect: pc and its local hasSetup
  ticks,             \* number of clock steps taken (bounds the clock)
  salts,             \* number of salts drawn from crypto.getRandomValues
  ivs,               \* number of IVs drawn from crypto.getRandomValues
  failStreak,        \* history: failed login verifications since the last success
  lastFailAt,        \* history: Date.now() of the latest failed login verification
  savedSecret,       \* history: plaintext of the latest persisted saveApiKey
  bioOnly,           \* history: biometric login from Locked with a stored secret,
                     \*          no password given to login/unlockApiKey since
  sessionStart,      \* history: Date.now() when the current session began
  hidden,            \* document.hidden
  mounted,           \* the effects of the isAuthenticated = true render are
                     \* mounted: activity and visibilitychange listeners attached
  sessionTimeoutRef, \* useRef: id of the latest idle timer (NoTimer: null)
  blurTimeoutRef,    \* useRef: id of the latest blur timer (NoTimer: null)
  lastActivityRef,   \* useRef: Date.now() of the latest idle-timer reset
  timers,            \* pending setTimeout callbacks: [id, fn, at, setAt]
  timerIds,          \* number of ids handed out by setTimeout
  lastAutoLock       \* history: the latest lock() not called from the lock
                     \* button, or null: by (idle or blur timer, expiry
                     \* test), delay (since the timer was set, or since
                     \* expiresAt), reset (the timer was set by a reset later
                     \* than the session's start), authenticated (before it)
VARIABLES
  settings,          \* localStorage[SETTINGS_KEY]: apiKey, targetCalories
  setupScreen,       \* SetupScreen: mounted, its useState values, and the
                     \* await its handleCreateAccount is suspended at
  loginScreen        \* LoginScreen: mounted, its useState values, the
                     \* lockout effect's interval and dependency, and
                     \* whether handlePasswordLogin is suspended at its await

persisted == <<auth, dailyEntries, exerciseHistory>>
memory == <<authState, decryptedApiKey, currentPassword>>
attempts == <<failStreak, lastFailAt, savedSecret, bioOnly>>
history == <<attempts, sessionStart>>
refs == <<sessionTimeoutRef, blurTimeoutRef, lastActivityRef>>
\* the page's event and timer machinery
page == <<hidden, mounted, refs, timers, timerIds, lastAutoLock>>
\* local settings and the state of the setup and login screens
screens == <<settings, setupScreen, loginScreen>>
ui == <<page, screens>>
vars == <<now, auth, dailyEntries, exerciseHistory, session, authState,
          decryptedApiKey, currentPassword, calls, init, ticks, salts, ivs,
          failStreak, lastFailAt, savedSecret, bioOnly, sessionStart,
          hidden, mounted, sessionTimeoutRef, blurTimeoutRef, lastActivityRef,
          timers, timerIds, lastAutoLock, settings, setupScreen, loginScreen>>

IdleCall ==
  [ op |-> "none", pc |-> "idle", password |-> NoString, apiKey |-> NoString,
    authData |-> null, pending |-> null, result |-> null ]

\* a finished call keeps its name, its arguments and its result
Done(call, result) ==
  [ IdleCall EXCEPT !.op = call.op, !.pc = "done", !.result = result,
                    !.password = call.password, !.apiKey = call.apiKey ]

Failure(error) == [success |-> FALSE, error |-> error]
Success == [success |-> TRUE]

\* A call may start on a slot that holds no call in flight.  The two reads
\* of initAuth are issued at mount and resolve before the first user action.
Free(c) == calls[c].pc \in {"idle", "done"} /\ init.pc = "done"

Start(c, op, pc, password, apiKey) ==
  calls' = [calls EXCEPT ![c] =
              [IdleCall EXCEPT !.op = op, !.pc = pc,
                               !.password = password, !.apiKey = apiKey]]

Goto(c, pc) == calls' = [calls EXCEPT ![c].pc = pc]

Return(c, result) == calls' = [calls EXCEPT ![c] = Done(calls[c], result)]

At(c, op, pc) == calls[c].op = op /\ calls[c].pc = pc

\* a lockout test with the comparison turned around
LockedOut_Inverted(authData) ==
  authData.lockoutUntil # NoTime /\ authData.lockoutUntil < now

\* a lockout that no clock value lifts
LockedOut_NeverExpires(authData) == authData.lockoutUntil # NoTime

\* authData.lockoutUntil && authData.lockoutUntil > Date.now()
LockedOut(authData) == authData.lockoutUntil # NoTime /\ authData.lockoutUntil > now

\* Math.ceil(ms / 1000)
CeilSeconds(ms) == (ms + 999) \div 1000

NewSession == [expiresAt |-> now + SESSION_TIMEOUT]

\* authState.authData is a copy of the record handed to setAuthState; the
\* model keeps the fields of the copy that the context value and its
\* consumers read (hasApiKey, biometricEnabled, lockoutUntil).
Cached(authData) ==
  IF authData = null THEN null
  ELSE [ encryptedApiKey  |-> authData.encryptedApiKey,
         biometricEnabled |-> authData.biometricEnabled,
         lockoutUntil     |-> authData.lockoutUntil ]

\* utils/settings: the value read when nothing is stored
defaultSettings == [apiKey |-> "", targetCalories |-> 2000]

\* SetupScreen before it is mounted: the initial useState values
NoSetupScreen ==
  [ mounted |-> FALSE, step |-> "password", loading |-> FALSE,
    error |-> FALSE, awaiting |-> "none" ]

\* LoginScreen before it is mounted: the initial useState values, no interval
NoLoginScreen ==
  [ mounted |-> FALSE, lockoutRemaining |-> 0, loading |-> FALSE,
    interval |-> NoTime, deps |-> NoTime, awaiting |-> FALSE ]

Init ==
  /\ now = StartTime
  /\ auth = null
  /\ dailyEntries = {}
  /\ exerciseHistory = {}
  /\ session = null
  /\ authState = [isLoading |-> TRUE, needsSetup |-> FALSE,
                  isAuthenticated |-> FALSE, authData |-> null]
  /\ decryptedApiKey = NoString
  /\ currentPassword = NoString
  /\ calls = [c \in Slots |-> IdleCall]
  /\ init = [pc |-> "hasAuthSetup", hasSetup |-> FALSE]
  /\ ticks = 0
  /\ salts = 0
  /\ ivs = 0
  /\ failStreak = 0
  /\ lastFailAt = NoTime
  /\ savedSecret = NoString
  /\ bioOnly = FALSE
  /\ sessionStart = NoTime
  /\ hidden = FALSE
  /\ mounted = FALSE
  /\ sessionTimeoutRef = NoTimer
  /\ blurTimeoutRef = NoTimer
  /\ lastActivityRef = StartTime
  /\ timers = {}
  /\ timerIds = 0
  /\ lastAutoLock = null
  /\ settings = defaultSettings
  /\ setupScreen = NoSetupScreen
  /\ loginScreen = NoLoginScreen

\* ------------------------------------------------------------------ clock
Tick ==
  /\ ticks < MaxTicks
  /\ ticks' = ticks + 1
  /\ now' = now + TickStep
  /\ UNCHANGED <<ui, salts, ivs, persisted, session, memory, calls, init, history>>

\* ------------------------------------------------------- initAuth effect
\* const hasSetup = await hasAuthSetup()
InitHasAuthSetup ==
  /\ init.pc = "hasAuthSetup"
  /\ init' = [pc |-> "getAuthData",
              hasSetup |-> (auth # null /\ auth.passwordHash # null)]
  /\ UNCHANGED <<ui, now, ticks, salts, ivs, persisted, session, memory, calls, history>>

\* const authData = await getAuthData(); session check; setAuthState
InitGetAuthData ==
  /\ init.pc = "getAuthData"
  /\ LET restore == session # null /\ init.hasSetup
         valid   == restore /\ session.expiresAt > now
     IN /\ session' = IF restore /\ ~valid THEN null ELSE session
        /\ authState' = [isLoading |-> FALSE, needsSetup |-> ~init.hasSetup,
                         isAuthenticated |-> valid, authData |-> Cached(auth)]
        /\ sessionStart' = IF valid THEN sessionStart ELSE NoTime
  /\ init' = [init EXCEPT !.pc = "done"]
  /\ UNCHANGED <<ui, now, ticks, salts, ivs, persisted, decryptedApiKey, currentPassword,
                 calls, attempts>>

\* catch (error): a read of the credential store rejects, or JSON.parse of
\* the session record throws
InitCatch ==
  /\ init.pc \in {"hasAuthSetup", "getAuthData"}
  /\ authState' = [isLoading |-> FALSE, needsSetup |-> TRUE,
                   isAuthenticated |-> FALSE, authData |-> null]
  /\ init' = [init EXCEPT !.pc = "done"]
  /\ sessionStart' = NoTime
  /\ UNCHANGED <<ui, now, ticks, salts, ivs, persisted, session, decryptedApiKey,
                 currentPassword, calls, attempts>>

\* ------------------------------------------------------------------ lock
\* the part of the state lock() can reach
LockView ==
  [ decryptedApiKey |-> decryptedApiKey, currentPassword |-> currentPassword,
    session |-> session, authState |-> authState, auth |-> auth,
    timers |-> timers, sessionTimeoutRef |-> sessionTimeoutRef,
    blurTimeoutRef |-> blurTimeoutRef ]

\* a clearTimeout that cancels nothing
clearTimeout_Noop(pending, id) == pending

\* clearTimeout(id): an id that is not pending is ignored
clearTimeout(pending, id) == {t \in pending : t.id # id}

\* a lock that forgets to drop the password
lock_KeepsPassword(s) ==
  [ s EXCEPT !.decryptedApiKey = NoString,
             !.session = null,
             !.timers = clearTimeout(s.timers, s.sessionTimeoutRef),
             !.authState = [s.authState EXCEPT !.isAuthenticated = FALSE] ]

\* if (sessionTimeoutRef.current) clearTimeout(...): the blur timer is left
lock(s) ==
  [ s EXCEPT !.decryptedApiKey = NoString,
             !.currentPassword = NoString,
             !.session = null,
             !.timers = clearTimeout(s.timers, s.sessionTimeoutRef),
             !.authState = [s.authState EXCEPT !.isAuthenticated = FALSE] ]

\* the state after lock() has run on the view s
Locks(s) ==
  /\ decryptedApiKey' = lock(s).decryptedApiKey
  /\ currentPassword' = lock(s).currentPassword
  /\ session' = lock(s).session
  /\ authState' = lock(s).authState
  /\ auth' = lock(s).auth
  /\ timers' = lock(s).timers
  /\ sessionStart' = NoTime

\* lock() called by a consumer of the context (the lock button)
Lock ==
  /\ Locks(LockView)
  /\ UNCHANGED <<screens, hidden, mounted, refs, timerIds, lastAutoLock, now, ticks, salts, ivs,
                 dailyEntries, exerciseHistory, calls, init, attempts>>

\* ---------------------------------------------------------- setupAccount
generateSalt == [salt |-> salts + 1]

generateIV == [iv |-> ivs + 1]

newAuthData(password, salt) ==
  LET h == hashPassword(password, salt)
  IN [ passwordHash |-> h.hash, salt |-> h.salt,
       encryptedApiKey |-> null, apiKeyIV |-> null,
       biometricEnabled |-> FALSE, biometricCredentialId |-> null,
       failedAttempts |-> 0, lockoutUntil |-> NoTime, createdAt |-> now ]

\* setupAccount(password) runs up to its first await
SetupStart(c, password) ==
  /\ Free(c)
  /\ salts < MaxSalts
  /\ Start(c, "setup", "hash", password, NoString)
  /\ UNCHANGED <<page, now, ticks, salts, ivs, persisted, session, memory, init, history>>

SetupCall(c, password) == SetupStart(c, password) /\ UNCHANGED screens

\* hashPassword resolves; authData is built (createdAt: Date.now())
SetupHash(c) ==
  /\ At(c, "setup", "hash")
  /\ salts' = salts + 1
  /\ calls' = [calls EXCEPT ![c].pc = "put",
                 ![c].pending = newAuthData(calls[c].password, generateSalt)]
  /\ UNCHANGED <<ui, now, ticks, ivs, persisted, session, memory, init, history>>

\* setAuthData resolves; session, password and authState are set
SetupPut(c) ==
  /\ At(c, "setup", "put")
  /\ auth' = calls[c].pending
  /\ session' = NewSession
  /\ currentPassword' = calls[c].password
  /\ authState' = [isLoading |-> FALSE, needsSetup |-> FALSE,
                   isAuthenticated |-> TRUE,
                   authData |-> Cached(calls[c].pending)]
  /\ Return(c, Success)
  /\ failStreak' = 0
  /\ savedSecret' = NoString
  /\ sessionStart' = now
  /\ UNCHANGED <<ui, now, ticks, salts, ivs, dailyEntries, exerciseHistory, decryptedApiKey,
                 init, lastFailAt, bioOnly>>

\* ------------------------------------------------------ loginWithPassword
\* history: the password given is the one of the persisted account
IsCorrect(password) ==
  auth # null /\ verifyPassword(password, auth.passwordHash, auth.salt) = "valid"

\* loginWithPassword(password) runs up to its first await
LoginStart(c, password) ==
  /\ Free(c)
  /\ Start(c, "login", "get", password, NoString)
  /\ bioOnly' = (bioOnly /\ ~IsCorrect(password))
  /\ UNCHANGED <<page, now, ticks, salts, ivs, persisted, session, memory, init,
                 failStreak, lastFailAt, savedSecret, sessionStart>>

LoginCall(c, password) == LoginStart(c, password) /\ UNCHANGED screens

LockedResult(seconds) ==
  [success |-> FALSE, error |-> "Too many attempts", locked |-> TRUE,
   seconds |-> seconds]

\* getAuthData resolves; account and lockout checks
LoginGet(c) ==
  /\ At(c, "login", "get")
  /\ LET call == [calls[c] EXCEPT !.authData = auth]
     IN calls' = [calls EXCEPT ![c] =
          IF auth = null THEN Done(call, Failure("No account found"))
          ELSE IF LockedOut(auth)
          THEN Done(call, LockedResult(CeilSeconds(auth.lockoutUntil - now)))
          ELSE [call EXCEPT !.pc = "verify"]]
  /\ UNCHANGED <<ui, now, ticks, salts, ivs, persisted, session, memory, init, history>>

\* a threshold that locks one failure late
failureUpdates_LateThreshold(authData) ==
  LET newFailedAttempts == authData.failedAttempts + 1
  IN IF newFailedAttempts > MAX_FAILED_ATTEMPTS
     THEN [failedAttempts |-> 0, lockoutUntil |-> now + LOCKOUT_DURATION]
     ELSE [failedAttempts |-> newFailedAttempts, lockoutUntil |-> NoTime]

\* const updates = ... after a failed verification (lockoutUntil unset: NoTime)
failureUpdates(authData) ==
  LET newFailedAttempts == authData.failedAttempts + 1
  IN IF newFailedAttempts >= MAX_FAILED_ATTEMPTS
     THEN [failedAttempts |-> 0, lockoutUntil |-> now + LOCKOUT_DURATION]
     ELSE [failedAttempts |-> newFailedAttempts, lockoutUntil |-> NoTime]

\* { ...authData, ...updates }: the record written after a failed verification
recordFailure(authData) ==
  LET updates == failureUpdates(authData)
  IN [authData EXCEPT !.failedAttempts = updates.failedAttempts,
                      !.lockoutUntil = IF updates.lockoutUntil # NoTime
                                       THEN updates.lockoutUntil ELSE @]

\* a success that clears the lockout but keeps the count
recordSuccess_KeepsCount(authData) == [authData EXCEPT !.lockoutUntil = NoTime]

\* the record written after a successful verification
recordSuccess(authData) ==
  [authData EXCEPT !.failedAttempts = 0, !.lockoutUntil = NoTime]

\* an outcome that counts the attempts left before the increment
failureResult_OffByOne(authData) ==
  IF failureUpdates(authData).lockoutUntil # NoTime
  THEN LockedResult(30)
  ELSE [success |-> FALSE, error |-> "Invalid password",
        attemptsRemaining |-> MAX_FAILED_ATTEMPTS - authData.failedAttempts]

\* the outcome reported after a failed verification
failureResult(authData) ==
  IF failureUpdates(authData).lockoutUntil # NoTime
  THEN LockedResult(30)
  ELSE [success |-> FALSE, error |-> "Invalid password",
        attemptsRemaining |->
          MAX_FAILED_ATTEMPTS - (authData.failedAttempts + 1)]

\* verifyPassword resolves
LoginVerify(c) ==
  /\ At(c, "login", "verify")
  /\ LET call == calls[c]
         v == verifyPassword(call.password, call.authData.passwordHash,
                             call.authData.salt)
     IN /\ calls' = [calls EXCEPT ![c] =
             CASE v = "throw"   -> Done(call, Failure("Login error"))
               [] v = "invalid" -> [call EXCEPT !.pc = "putFailure",
                                      !.pending = recordFailure(call.authData),
                                      !.result = failureResult(call.authData)]
               [] v = "valid"   -> [call EXCEPT !.pc = "putSuccess",
                                      !.pending = recordSuccess(call.authData)]]
        /\ failStreak' = CASE v = "invalid" -> IF failStreak < StreakCap
                                                  THEN failStreak + 1 ELSE StreakCap
                            [] v = "valid" -> 0
                            [] OTHER -> failStreak
        /\ lastFailAt' = IF v = "invalid" THEN now ELSE lastFailAt
  /\ UNCHANGED <<ui, now, ticks, salts, ivs, persisted, session, memory, init,
                 savedSecret, bioOnly, sessionStart>>

\* an outcome returned while the failure record is not written
LoginPutFailure_Unwritten(c) ==
  /\ At(c, "login", "putFailure")
  /\ Return(c, calls[c].result)
  /\ UNCHANGED <<ui, now, ticks, salts, ivs, persisted, session, memory,
                 init, history>>

\* setAuthData of the failure resolves; the outcome is returned
LoginPutFailure(c) ==
  /\ At(c, "login", "putFailure")
  /\ auth' = calls[c].pending
  /\ Return(c, calls[c].result)
  /\ UNCHANGED <<ui, now, ticks, salts, ivs, dailyEntries, exerciseHistory, session, memory,
                 init, history>>

\* session creation at the end of a successful login
LoginCommit(c, apiKey) ==
  /\ session' = NewSession
  /\ currentPassword' = calls[c].password
  /\ decryptedApiKey' = apiKey
  /\ authState' = [isLoading |-> FALSE, needsSetup |-> FALSE,
                   isAuthenticated |-> TRUE,
                   authData |-> Cached(calls[c].authData)]
  /\ Return(c, Success)
  /\ sessionStart' = now

HasApiKey(authData) == authData.encryptedApiKey # null /\ authData.apiKeyIV # null

\* setAuthData of the reset resolves; without a stored key the session starts
LoginPutSuccess(c) ==
  /\ At(c, "login", "putSuccess")
  /\ auth' = calls[c].pending
  /\ IF HasApiKey(calls[c].authData)
     THEN /\ Goto(c, "decrypt")
          /\ UNCHANGED <<session, memory, sessionStart>>
     ELSE LoginCommit(c, NoString)
  /\ UNCHANGED <<ui, now, ticks, salts, ivs, dailyEntries, exerciseHistory, init, attempts>>

\* a decryption error that reaches the outer catch and fails the login
LoginDecrypt_Rethrows(c) ==
  /\ At(c, "login", "decrypt")
  /\ LET a == calls[c].authData
         d == decryptData(a.encryptedApiKey, a.apiKeyIV, calls[c].password, a.salt)
     IN IF d.ok THEN LoginCommit(c, d.value)
        ELSE /\ Return(c, Failure("OperationError"))
             /\ UNCHANGED <<session, memory, sessionStart>>
  /\ UNCHANGED <<ui, now, ticks, salts, ivs, persisted, init, attempts>>

\* decryptData resolves or throws; the session starts
LoginDecrypt(c) ==
  /\ At(c, "login", "decrypt")
  /\ LET a == calls[c].authData
         d == decryptData(a.encryptedApiKey, a.apiKeyIV, calls[c].password, a.salt)
     IN LoginCommit(c, IF d.ok THEN d.value ELSE NoString)
  /\ UNCHANGED <<ui, now, ticks, salts, ivs, persisted, init, attempts>>

\* ----------------------------------------------------- loginWithBiometric
BiometricLoginCall(c) ==
  /\ Free(c)
  /\ Start(c, "loginWithBiometric", "get", NoString, NoString)
  /\ UNCHANGED <<ui, now, ticks, salts, ivs, persisted, session, memory, init, history>>

\* getAuthData resolves; !authData?.biometricEnabled || !authData?.biometricCredentialId
BiometricLoginGet(c) ==
  /\ At(c, "loginWithBiometric", "get")
  /\ calls' = [calls EXCEPT ![c] =
       IF auth = null \/ ~auth.biometricEnabled \/ auth.biometricCredentialId = null
       THEN Done(calls[c], Failure("Biometric not enabled"))
       ELSE [calls[c] EXCEPT !.pc = "authenticate", !.authData = auth]]
  /\ UNCHANGED <<ui, now, ticks, salts, ivs, persisted, session, memory, init, history>>

\* authenticateBiometric resolves (it returns false when the platform throws)
BiometricLoginAuthenticate(c) ==
  /\ At(c, "loginWithBiometric", "authenticate")
  /\ \E authenticated \in BOOLEAN :
       IF ~authenticated
       THEN /\ Return(c, Failure("Biometric authentication failed"))
            /\ UNCHANGED <<session, memory, bioOnly, sessionStart>>
       ELSE /\ session' = NewSession
            /\ sessionStart' = now
            /\ authState' = [isLoading |-> FALSE, needsSetup |-> FALSE,
                             isAuthenticated |-> TRUE,
                             authData |-> Cached(calls[c].authData)]
            /\ Return(c, [success |-> TRUE, needsPasswordForApiKey |->
                               (calls[c].authData.encryptedApiKey # null)])
            /\ bioOnly' = (bioOnly \/ (~authState.isAuthenticated
                                       /\ calls[c].authData.encryptedApiKey # null))
            /\ UNCHANGED <<decryptedApiKey, currentPassword>>
  /\ UNCHANGED <<ui, now, ticks, salts, ivs, persisted, init, failStreak, lastFailAt,
                 savedSecret>>

\* ------------------------------------------- enable / disable biometric
\* { ...authData }: spreading null or undefined gives an object without fields
Spread(authData) ==
  IF authData = null
  THEN [ passwordHash |-> null, salt |-> null,
         encryptedApiKey |-> null, apiKeyIV |-> null,
         biometricEnabled |-> FALSE, biometricCredentialId |-> null,
         failedAttempts |-> 0, lockoutUntil |-> NoTime, createdAt |-> NoTime ]
  ELSE authData

\* { ...prev.authData } in the setAuthState updaters
SpreadCached(authData) == Cached(Spread(authData))

withBiometric(authData, enabled, credentialId) ==
  [Spread(authData) EXCEPT !.biometricEnabled = enabled,
                           !.biometricCredentialId = credentialId]

EnableBiometricCall(c) ==
  /\ Free(c)
  /\ Start(c, "enableBiometric", "available", NoString, NoString)
  /\ UNCHANGED <<ui, now, ticks, salts, ivs, persisted, session, memory, init, history>>

\* isBiometricAvailable resolves
EnableBiometricAvailable(c) ==
  /\ At(c, "enableBiometric", "available")
  /\ \E available \in BOOLEAN :
       IF available THEN Goto(c, "get")
       ELSE Return(c, Failure("Biometric authentication not available"))
  /\ UNCHANGED <<ui, now, ticks, salts, ivs, persisted, session, memory, init, history>>

\* getAuthData resolves; authData.createdAt throws when there is no record
EnableBiometricGet(c) ==
  /\ At(c, "enableBiometric", "get")
  /\ calls' = [calls EXCEPT ![c] =
       IF auth = null THEN Done(calls[c], Failure("TypeError"))
       ELSE [calls[c] EXCEPT !.pc = "register", !.authData = auth]]
  /\ UNCHANGED <<ui, now, ticks, salts, ivs, persisted, session, memory, init, history>>

\* registerBiometric resolves with a credential or rejects
EnableBiometricRegister(c) ==
  /\ At(c, "enableBiometric", "register")
  /\ \/ Return(c, Failure("NotAllowedError"))
     \/ \E credentialId \in CredentialIds :
          calls' = [calls EXCEPT ![c].pc = "put",
             ![c].pending = withBiometric(calls[c].authData, TRUE,
                                          bufferToBase64(credentialId))]
  /\ UNCHANGED <<ui, now, ticks, salts, ivs, persisted, session, memory, init, history>>

\* setAuthData resolves; setAuthState(prev => ...)
EnableBiometricPut(c) ==
  /\ At(c, "enableBiometric", "put")
  /\ auth' = calls[c].pending
  /\ authState' = [authState EXCEPT !.authData =
        [SpreadCached(authState.authData) EXCEPT !.biometricEnabled = TRUE]]
  /\ Return(c, Success)
  /\ UNCHANGED <<ui, now, ticks, salts, ivs, dailyEntries, exerciseHistory, session,
                 decryptedApiKey, currentPassword, init, history>>

DisableBiometricCall(c) ==
  /\ Free(c)
  /\ Start(c, "disableBiometric", "get", NoString, NoString)
  /\ UNCHANGED <<ui, now, ticks, salts, ivs, persisted, session, memory, init, history>>

\* getAuthData resolves; setAuthData({...authData, ...}) is issued
DisableBiometricGet(c) ==
  /\ At(c, "disableBiometric", "get")
  /\ calls' = [calls EXCEPT ![c].pc = "put", ![c].authData = auth,
                            ![c].pending = withBiometric(auth, FALSE, null)]
  /\ UNCHANGED <<ui, now, ticks, salts, ivs, persisted, session, memory, init, history>>

\* setAuthData resolves; setAuthState(prev => ...)
DisableBiometricPut(c) ==
  /\ At(c, "disableBiometric", "put")
  /\ auth' = calls[c].pending
  /\ authState' = [authState EXCEPT !.authData =
        [SpreadCached(authState.authData) EXCEPT !.biometricEnabled = FALSE]]
  /\ Return(c, Success)
  /\ failStreak' = IF auth = null THEN 0 ELSE failStreak
  /\ savedSecret' = IF auth = null THEN NoString ELSE savedSecret
  /\ UNCHANGED <<ui, now, ticks, salts, ivs, dailyEntries, exerciseHistory, session,
                 decryptedApiKey, currentPassword, init, lastFailAt, bioOnly, sessionStart>>

\* -------------------------------------------------------------- saveApiKey
\* a save that goes on without a password
SaveApiKeyCall_Unchecked(c, apiKey) ==
  /\ Free(c)
  /\ ivs < MaxIVs
  /\ Start(c, "saveApiKey", "get", currentPassword, apiKey)
  /\ UNCHANGED <<ui, now, ticks, salts, ivs, persisted, session, memory, init, history>>

\* password = currentPassword (the default every caller relies on)
SaveApiKeyCall(c, apiKey) ==
  /\ Free(c)
  /\ IF currentPassword = NoString
     THEN calls' = [calls EXCEPT ![c] =
            Done([IdleCall EXCEPT !.op = "saveApiKey"],
                 Failure("Password required to encrypt API key"))]
     ELSE /\ ivs < MaxIVs
          /\ Start(c, "saveApiKey", "get", currentPassword, apiKey)
  /\ UNCHANGED <<ui, now, ticks, salts, ivs, persisted, session, memory, init, history>>

\* getAuthData resolves; authData.salt throws when there is no record
SaveApiKeyGet(c) ==
  /\ At(c, "saveApiKey", "get")
  /\ calls' = [calls EXCEPT ![c] =
       IF auth = null THEN Done(calls[c], Failure("TypeError"))
       ELSE [calls[c] EXCEPT !.pc = "encrypt", !.authData = auth]]
  /\ UNCHANGED <<ui, now, ticks, salts, ivs, persisted, session, memory, init, history>>

\* a save that stores the ciphertext and leaves the IV as it was
SaveApiKeyEncrypt_NoIV(c) ==
  /\ At(c, "saveApiKey", "encrypt")
  /\ IF ~IsBase64(calls[c].authData.salt)
     THEN /\ Return(c, Failure("InvalidCharacterError"))
          /\ UNCHANGED ivs
     ELSE LET e == encryptData(calls[c].apiKey, calls[c].password,
                               calls[c].authData.salt, generateIV)
          IN /\ ivs' = ivs + 1
             /\ calls' = [calls EXCEPT ![c].pc = "put",
                  ![c].pending = [calls[c].authData EXCEPT
                                    !.encryptedApiKey = e.encrypted]]
  /\ UNCHANGED <<ui, now, ticks, salts, persisted, session, memory, init, history>>

\* encryptData resolves (fresh iv) or throws; setAuthData is issued
SaveApiKeyEncrypt(c) ==
  /\ At(c, "saveApiKey", "encrypt")
  /\ IF ~IsBase64(calls[c].authData.salt)
     THEN /\ Return(c, Failure("InvalidCharacterError"))
          /\ UNCHANGED ivs
     ELSE LET e == encryptData(calls[c].apiKey, calls[c].password,
                               calls[c].authData.salt, generateIV)
          IN /\ ivs' = ivs + 1
             /\ calls' = [calls EXCEPT ![c].pc = "put",
                  ![c].pending = [calls[c].authData EXCEPT
                                    !.encryptedApiKey = e.encrypted,
                                    !.apiKeyIV = e.iv]]
  /\ UNCHANGED <<ui, now, ticks, salts, persisted, session, memory, init, history>>

\* setAuthData resolves; the plaintext is kept in memory
SaveApiKeyPut(c) ==
  /\ At(c, "saveApiKey", "put")
  /\ auth' = calls[c].pending
  /\ decryptedApiKey' = calls[c].apiKey
  /\ authState' = [authState EXCEPT !.authData =
        [SpreadCached(authState.authData) EXCEPT
           !.encryptedApiKey = calls[c].pending.encryptedApiKey]]
  /\ Return(c, Success)
  /\ savedSecret' = calls[c].apiKey
  /\ UNCHANGED <<ui, now, ticks, salts, ivs, dailyEntries, exerciseHistory, session,
                 currentPassword, init, failStreak, lastFailAt, bioOnly, sessionStart>>

\* ------------------------------------------------------------ unlockApiKey
UnlockApiKeyCall(c, password) ==
  /\ Free(c)
  /\ Start(c, "unlockApiKey", "get", password, NoString)
  /\ bioOnly' = (bioOnly /\ ~IsCorrect(password))
  /\ UNCHANGED <<ui, now, ticks, salts, ivs, persisted, session, memory, init,
                 failStreak, lastFailAt, savedSecret, sessionStart>>

\* getAuthData resolves; a missing record throws into the catch block
UnlockApiKeyGet(c) ==
  /\ At(c, "unlockApiKey", "get")
  /\ LET call == [calls[c] EXCEPT !.authData = auth]
     IN calls' = [calls EXCEPT ![c] =
          IF auth = null THEN Done(call, Failure("Failed to decrypt API key"))
          ELSE IF ~HasApiKey(auth) THEN Done(call, Failure("No API key stored"))
          ELSE [call EXCEPT !.pc = "verify"]]
  /\ UNCHANGED <<ui, now, ticks, salts, ivs, persisted, session, memory, init, history>>

\* verifyPassword resolves
UnlockApiKeyVerify(c) ==
  /\ At(c, "unlockApiKey", "verify")
  /\ LET call == calls[c]
         v == verifyPassword(call.password, call.authData.passwordHash,
                             call.authData.salt)
     IN calls' = [calls EXCEPT ![c] =
          CASE v = "throw"   -> Done(call, Failure("Failed to decrypt API key"))
            [] v = "invalid" -> Done(call, Failure("Invalid password"))
            [] v = "valid"   -> [call EXCEPT !.pc = "decrypt"]]
  /\ UNCHANGED <<ui, now, ticks, salts, ivs, persisted, session, memory, init, history>>

\* decryptData resolves or throws
UnlockApiKeyDecrypt(c) ==
  /\ At(c, "unlockApiKey", "decrypt")
  /\ LET a == calls[c].authData
         d == decryptData(a.encryptedApiKey, a.apiKeyIV, calls[c].password, a.salt)
     IN IF d.ok
        THEN /\ currentPassword' = calls[c].password
             /\ decryptedApiKey' = d.value
             /\ Return(c, Success)
        ELSE /\ Return(c, Failure("Failed to decrypt API key"))
             /\ UNCHANGED <<currentPassword, decryptedApiKey>>
  /\ UNCHANGED <<ui, now, ticks, salts, ivs, persisted, session, authState, init, history>>

\* --------------------------------------------------------------- deleteAll
DeleteAllCall(c, password) ==
  /\ Free(c)
  /\ Start(c, "deleteAll", "get", password, NoString)
  /\ UNCHANGED <<ui, now, ticks, salts, ivs, persisted, session, memory, init, history>>

\* getAuthData resolves; authData.passwordHash throws when there is no record
DeleteAllGet(c) ==
  /\ At(c, "deleteAll", "get")
  /\ LET call == [calls[c] EXCEPT !.authData = auth]
     IN calls' = [calls EXCEPT ![c] =
          IF auth = null THEN Done(call, Failure("TypeError"))
          ELSE [call EXCEPT !.pc = "verify"]]
  /\ UNCHANGED <<ui, now, ticks, salts, ivs, persisted, session, memory, init, history>>

\* verifyPassword resolves; deleteAllData is entered on success
DeleteAllVerify(c) ==
  /\ At(c, "deleteAll", "verify")
  /\ LET call == calls[c]
         v == verifyPassword(call.password, call.authData.passwordHash,
                             call.authData.salt)
     IN calls' = [calls EXCEPT ![c] =
          CASE v = "throw"   -> Done(call, Failure("InvalidCharacterError"))
            [] v = "invalid" -> Done(call, Failure("Invalid password"))
            [] v = "valid"   -> [call EXCEPT !.pc = "clearDailyEntries"]]
  /\ UNCHANGED <<ui, now, ticks, salts, ivs, persisted, session, memory, init, history>>

\* deleteAllData: await db.dailyEntries.clear()
DeleteAllClearDailyEntries(c) ==
  /\ At(c, "deleteAll", "clearDailyEntries")
  /\ dailyEntries' = {}
  /\ Goto(c, "clearAuth")
  /\ UNCHANGED <<ui, now, ticks, salts, ivs, auth, exerciseHistory, session, memory, init, history>>

\* a deleteAllData that skips the auth table
DeleteAllClearAuth_Skipped(c) ==
  /\ At(c, "deleteAll", "clearAuth")
  /\ Goto(c, "clearExerciseHistory")
  /\ failStreak' = 0
  /\ savedSecret' = NoString
  /\ UNCHANGED <<ui, now, ticks, salts, ivs, persisted, session, memory,
                 init, lastFailAt, bioOnly, sessionStart>>

\* deleteAllData: await db.auth.clear()
DeleteAllClearAuth(c) ==
  /\ At(c, "deleteAll", "clearAuth")
  /\ auth' = null
  /\ Goto(c, "clearExerciseHistory")
  /\ failStreak' = 0
  /\ savedSecret' = NoString
  /\ UNCHANGED <<ui, now, ticks, salts, ivs, dailyEntries, exerciseHistory, session, memory,
                 init, lastFailAt, bioOnly, sessionStart>>

\* deleteAllData: await db.exerciseHistory.clear(); then "Clear everything"
DeleteAllClearExerciseHistory(c) ==
  /\ At(c, "deleteAll", "clearExerciseHistory")
  /\ exerciseHistory' = {}
  /\ decryptedApiKey' = NoString
  /\ currentPassword' = NoString
  /\ session' = null
  /\ authState' = [isLoading |-> FALSE, needsSetup |-> TRUE,
                   isAuthenticated |-> FALSE, authData |-> null]
  /\ Return(c, Success)
  /\ sessionStart' = NoTime
  /\ UNCHANGED <<ui, now, ticks, salts, ivs, auth, dailyEntries, init, attempts>>

\* ------------------------------------------------------ stored user records
EntryDates == {"2026-02-04"}
ExerciseNames == {"bicep curl"}

\* useDaily.addExercise, from the main screen: saveEntry puts the day's
\* entry, addExerciseToHistory puts the exercise name
AddExercise ==
  /\ authState.isAuthenticated
  /\ \A c \in Slots : Free(c)
  /\ \E date \in EntryDates : dailyEntries' = dailyEntries \cup {date}
  /\ \E name \in ExerciseNames : exerciseHistory' = exerciseHistory \cup {name}
  /\ UNCHANGED <<ui, now, ticks, salts, ivs, auth, session, memory, calls,
                 init, history>>

\* -------------------------------------------------- timers and page events
\* setTimeout(fn, delay): the new timer; its id is the next one handed out
setTimeout(fn, delay) ==
  [id |-> timerIds + 1, fn |-> fn, at |-> now + delay, setAt |-> now]

\* a reset that schedules the idle timer with the blur delay
resetSessionTimeout_BlurDelay(isAuthenticated) ==
  /\ lastActivityRef' = now
  /\ IF isAuthenticated
     THEN /\ session' = [expiresAt |-> now + SESSION_TIMEOUT]
          /\ timers' = clearTimeout(timers, sessionTimeoutRef)
                          \cup {setTimeout("idle", TAB_BLUR_TIMEOUT)}
          /\ sessionTimeoutRef' = timerIds + 1
          /\ timerIds' = timerIds + 1
     ELSE /\ timers' = clearTimeout(timers, sessionTimeoutRef)
          /\ UNCHANGED <<session, sessionTimeoutRef, timerIds>>

\* a reset that schedules without cancelling the previous timer
resetSessionTimeout_NoCancel(isAuthenticated) ==
  /\ lastActivityRef' = now
  /\ IF isAuthenticated
     THEN /\ session' = [expiresAt |-> now + SESSION_TIMEOUT]
          /\ timers' = timers \cup {setTimeout("idle", SESSION_TIMEOUT)}
          /\ sessionTimeoutRef' = timerIds + 1
          /\ timerIds' = timerIds + 1
     ELSE UNCHANGED <<timers, session, sessionTimeoutRef, timerIds>>

\* resetSessionTimeout of the render in which authState.isAuthenticated had
\* the value isAuthenticated
resetSessionTimeout(isAuthenticated) ==
  /\ lastActivityRef' = now
  /\ IF isAuthenticated
     THEN /\ session' = [expiresAt |-> now + SESSION_TIMEOUT]
          /\ timers' = clearTimeout(timers, sessionTimeoutRef)
                          \cup {setTimeout("idle", SESSION_TIMEOUT)}
          /\ sessionTimeoutRef' = timerIds + 1
          /\ timerIds' = timerIds + 1
     ELSE /\ timers' = clearTimeout(timers, sessionTimeoutRef)
          /\ UNCHANGED <<session, sessionTimeoutRef, timerIds>>

\* React runs the passive effects after the render that changed
\* authState.isAuthenticated: the cleanups of the previous effects (listeners
\* removed, both timers cleared) or the new effects (listeners added, initial
\* resetSessionTimeout())
CommitEffects ==
  /\ mounted # authState.isAuthenticated
  /\ mounted' = authState.isAuthenticated
  /\ IF mounted
     THEN /\ timers' = clearTimeout(clearTimeout(timers, sessionTimeoutRef),
                                    blurTimeoutRef)
          /\ UNCHANGED <<session, refs, timerIds>>
     ELSE /\ timerIds < MaxTimers
          /\ resetSessionTimeout(TRUE)
          /\ UNCHANGED blurTimeoutRef
  /\ UNCHANGED <<screens, hidden, lastAutoLock, now, ticks, salts, ivs, persisted, memory,
                 calls, init, history>>

\* click, keypress, scroll or touchstart on the visible page: handleActivity
\* of the mounted effect, whose resetSessionTimeout saw isAuthenticated = true
Activity ==
  /\ mounted /\ ~hidden
  /\ timerIds < MaxTimers
  /\ resetSessionTimeout(TRUE)
  /\ UNCHANGED <<screens, hidden, mounted, blurTimeoutRef, lastAutoLock, now, ticks, salts,
                 ivs, persisted, memory, calls, init, history>>

\* visibilitychange with document.hidden = true
Hide ==
  /\ ~hidden
  /\ hidden' = TRUE
  /\ IF mounted
     THEN /\ timerIds < MaxTimers
          /\ blurTimeoutRef' = timerIds + 1
          /\ timers' = timers \cup {setTimeout("blur", TAB_BLUR_TIMEOUT)}
          /\ timerIds' = timerIds + 1
     ELSE UNCHANGED <<blurTimeoutRef, timers, timerIds>>
  /\ UNCHANGED <<screens, mounted, sessionTimeoutRef, lastActivityRef, lastAutoLock, now,
                 ticks, salts, ivs, persisted, session, memory, calls, init, history>>

\* expiry test of a swapped comparison
Expired_Late(s) == s # null /\ s.expiresAt < now

\* session.expiresAt <= Date.now() on the stored session item
Expired(s) == s # null /\ s.expiresAt <= now

\* visibilitychange with document.hidden = false
Show ==
  /\ hidden
  /\ hidden' = FALSE
  /\ IF mounted
     THEN /\ blurTimeoutRef' = NoTimer
          /\ LET view == [LockView EXCEPT
                            !.timers = clearTimeout(timers, blurTimeoutRef)]
             IN IF Expired(session)
                THEN /\ Locks(view)
                     /\ lastAutoLock' =
                          [by |-> "expiry", delay |-> now - session.expiresAt,
                           reset |-> FALSE,
                           authenticated |-> authState.isAuthenticated]
                ELSE /\ timers' = view.timers
                     /\ UNCHANGED <<auth, session, memory, sessionStart,
                                    lastAutoLock>>
     ELSE UNCHANGED <<blurTimeoutRef, timers, auth, session, memory, sessionStart,
                      lastAutoLock>>
  /\ UNCHANGED <<screens, mounted, sessionTimeoutRef, lastActivityRef, timerIds, now, ticks,
                 salts, ivs, dailyEntries, exerciseHistory, calls, init, attempts>>

\* a timer that is due fires: both callbacks are () => lock()
TimerFire(id) ==
  /\ \E t \in timers :
       /\ t.id = id
       /\ t.at <= now
       /\ Locks([LockView EXCEPT !.timers = timers \ {t}])
       /\ lastAutoLock' =
            [by |-> t.fn, delay |-> now - t.setAt,
             reset |-> (sessionStart # NoTime /\ t.setAt > sessionStart),
             authenticated |-> authState.isAuthenticated]
  /\ UNCHANGED <<screens, hidden, mounted, refs, timerIds, now, ticks, salts, ivs,
                 dailyEntries, exerciseHistory, calls, init, attempts>>

\* Minutes pass on a running page: a timer fires when it is due, and the
\* awaits of a call and React's render and effects take milliseconds.
Elapse ==
  /\ ticks < MaxElapse
  /\ \A c \in Slots : Free(c)
  /\ mounted = authState.isAuthenticated
  /\ \A t \in timers : t.at >= now + ElapseStep
  /\ ticks' = ticks + 1
  /\ now' = now + ElapseStep
  /\ UNCHANGED <<ui, salts, ivs, persisted, session, memory, calls, init, history>>

\* Seconds pass while the lockout runs.
Wait ==
  /\ ticks < MaxWaits
  /\ ticks' = ticks + 1
  /\ now' = now + WaitStep
  /\ UNCHANGED <<ui, salts, ivs, persisted, session, memory, calls, init, history>>

\* The page is reloaded: component state, refs and timers are gone,
\* sessionStorage and IndexedDB stay, initAuth runs again.
Reload ==
  /\ \A c \in Slots : Free(c)
  /\ authState' = [isLoading |-> TRUE, needsSetup |-> FALSE,
                   isAuthenticated |-> FALSE, authData |-> null]
  /\ decryptedApiKey' = NoString
  /\ currentPassword' = NoString
  /\ calls' = [c \in Slots |-> IdleCall]
  /\ init' = [pc |-> "hasAuthSetup", hasSetup |-> FALSE]
  /\ mounted' = FALSE
  /\ sessionTimeoutRef' = NoTimer
  /\ blurTimeoutRef' = NoTimer
  /\ lastActivityRef' = now
  /\ timers' = {}
  /\ setupScreen' = NoSetupScreen
  /\ loginScreen' = NoLoginScreen
  /\ UNCHANGED <<hidden, timerIds, lastAutoLock, settings, now, ticks, salts, ivs,
                 persisted, session, history>>

\* ---------------------------------------------------------- utils/settings
\* { ...current, ...settings } for the settings passed as given
saveSettings(current, given) ==
  [k \in DOMAIN current |->
     IF k \in DOMAIN given THEN given[k] ELSE current[k]]

\* setApiKey(apiKey): localStorage.setItem(SETTINGS_KEY, JSON.stringify(updated))
SetApiKey(apiKey) ==
  /\ settings' = saveSettings(settings, [apiKey |-> apiKey])
  /\ UNCHANGED <<page, setupScreen, loginScreen, now, ticks, salts, ivs, persisted,
                 session, memory, calls, init, history>>

\* ------------------------------------------------------------------- App
\* the screen App renders; the context provides no authLoading
Screen ==
  IF authState.needsSetup THEN "setup"
  ELSE IF ~authState.isAuthenticated THEN "login" ELSE "main"

\* authData?.lockoutUntil, the dependency of LoginScreen's lockout effect
LockoutDep ==
  IF authState.authData = null THEN NoTime ELSE authState.authData.lockoutUntil

\* Math.max(0, Math.ceil((lockoutUntil - Date.now()) / 1000))
updateLockout(lockoutUntil, time) ==
  IF lockoutUntil > time THEN CeilSeconds(lockoutUntil - time) ELSE 0

\* SetupScreen after App has rendered "setup"
SetupScreenRendered ==
  IF setupScreen.mounted THEN setupScreen
  ELSE [NoSetupScreen EXCEPT !.mounted = TRUE, !.awaiting = setupScreen.awaiting]

\* LoginScreen after App has rendered "login": the lockout effect runs at
\* mount and when its dependency has changed, clearing the previous interval
LoginScreenRendered ==
  LET s == IF loginScreen.mounted THEN loginScreen
           ELSE [NoLoginScreen EXCEPT !.mounted = TRUE,
                                      !.awaiting = loginScreen.awaiting]
  IN IF loginScreen.mounted /\ loginScreen.deps = LockoutDep THEN s
     ELSE IF LockoutDep # NoTime /\ LockoutDep > now
     THEN [s EXCEPT !.deps = LockoutDep, !.interval = LockoutDep,
                    !.lockoutRemaining = updateLockout(LockoutDep, now)]
     ELSE [s EXCEPT !.deps = LockoutDep, !.interval = NoTime]

\* React commits a render of App: screens mount and unmount, effects run
Render ==
  /\ setupScreen' = IF Screen = "setup" THEN SetupScreenRendered
                    ELSE [NoSetupScreen EXCEPT !.awaiting = setupScreen.awaiting]
  /\ loginScreen' = IF Screen = "login" THEN LoginScreenRendered
                    ELSE [NoLoginScreen EXCEPT !.awaiting = loginScreen.awaiting]
  /\ <<setupScreen', loginScreen'>> # <<setupScreen, loginScreen>>
  /\ UNCHANGED <<page, settings, now, ticks, salts, ivs, persisted, session, memory,
                 calls, init, history>>

\* ----------------------------------------------------------- SetupScreen
validatePassword(password, confirmPassword) ==
  Len(password) >= 6 /\ password = confirmPassword

\* handleCreateAccount up to await setupAccount(password, targetCalories)
HandleCreateAccount(c, password, confirmPassword) ==
  /\ setupScreen.mounted /\ Screen = "setup"
  /\ setupScreen.step = "password" /\ ~setupScreen.loading
  /\ IF validatePassword(password, confirmPassword)
     THEN /\ SetupStart(c, password)
          /\ setupScreen' = [setupScreen EXCEPT !.loading = TRUE, !.error = FALSE,
                                                !.awaiting = "setupAccount"]
     ELSE /\ setupScreen' = [setupScreen EXCEPT !.error = TRUE]
          /\ UNCHANGED <<page, now, ticks, salts, ivs, persisted, session, memory,
                         calls, init, history>>
  /\ UNCHANGED <<settings, loginScreen>>

\* setupAccount has resolved: setLoading(false); on success the handler goes
\* on to await checkBiometricAvailable().  setState on an unmounted
\* component does nothing.
SetupScreenResult(c) ==
  /\ setupScreen.awaiting = "setupAccount"
  /\ At(c, "setup", "done")
  /\ LET success == calls[c].result.success
     IN setupScreen' =
          [setupScreen EXCEPT
             !.awaiting = IF success THEN "checkBiometricAvailable" ELSE "none",
             !.loading = FALSE,
             !.error = setupScreen.mounted /\ ~success]
  /\ UNCHANGED <<page, settings, loginScreen, now, ticks, salts, ivs, persisted,
                 session, memory, calls, init, history>>

\* checkBiometricAvailable has resolved: setStep('biometric' or 'complete')
SetupScreenBiometric ==
  /\ setupScreen.awaiting = "checkBiometricAvailable"
  /\ \E bioAvailable \in BOOLEAN :
       setupScreen' =
         [setupScreen EXCEPT
            !.awaiting = "none",
            !.step = IF ~setupScreen.mounted THEN @
                     ELSE IF bioAvailable THEN "biometric" ELSE "complete"]
  /\ UNCHANGED <<page, settings, loginScreen, now, ticks, salts, ivs, persisted,
                 session, memory, calls, init, history>>

\* ----------------------------------------------------------- LoginScreen
\* handlePasswordLogin up to await loginWithPassword(password); it returns
\* at once while lockoutRemaining > 0, and the submit button is disabled
\* while loading
HandlePasswordLogin(c, password) ==
  /\ loginScreen.mounted /\ Screen = "login"
  /\ ~loginScreen.loading
  /\ loginScreen.lockoutRemaining = 0
  /\ LoginStart(c, password)
  /\ loginScreen' = [loginScreen EXCEPT !.loading = TRUE, !.awaiting = TRUE]
  /\ UNCHANGED <<settings, setupScreen>>

\* loginWithPassword has resolved: setLoading(false); setLockoutRemaining(30)
\* when the result is locked
LoginScreenResult(c) ==
  /\ loginScreen.awaiting
  /\ At(c, "login", "done")
  /\ LET result == calls[c].result
         locked == "locked" \in DOMAIN result /\ result.locked
     IN loginScreen' =
          IF ~loginScreen.mounted THEN [loginScreen EXCEPT !.awaiting = FALSE]
          ELSE [loginScreen EXCEPT
                  !.awaiting = FALSE, !.loading = FALSE,
                  !.lockoutRemaining = IF ~result.success /\ locked THEN 30 ELSE @]
  /\ UNCHANGED <<page, settings, setupScreen, now, ticks, salts, ivs, persisted,
                 session, memory, calls, init, history>>

\* WaitStep of time passes; an interval set by the lockout effect has run
\* updateLockout every second of it
Countdown ==
  /\ ticks < MaxWaits
  /\ ticks' = ticks + 1
  /\ now' = now + WaitStep
  /\ loginScreen' =
       IF loginScreen.mounted /\ loginScreen.interval # NoTime
       THEN [loginScreen EXCEPT
               !.lockoutRemaining = updateLockout(loginScreen.interval, now')]
       ELSE loginScreen
  /\ UNCHANGED <<page, settings, setupScreen, salts, ivs, persisted, session, memory,
                 calls, init, history>>

\* ------------------------------------------------------------ specification
Next ==
  \/ Tick
  \/ InitHasAuthSetup
  \/ InitGetAuthData
  \/ Lock
  \/ AddExercise
  \/ \E c \in Serial :
       \/ \E password \in Passwords : SetupCall(c, password)
       \/ SetupHash(c)
       \/ SetupPut(c)
       \/ \E password \in Passwords : LoginCall(c, password)
       \/ LoginGet(c)
       \/ LoginVerify(c)
       \/ LoginPutFailure(c)
       \/ LoginPutSuccess(c)
       \/ LoginDecrypt(c)
       \/ BiometricLoginCall(c)
       \/ BiometricLoginGet(c)
       \/ BiometricLoginAuthenticate(c)
       \/ EnableBiometricCall(c)
       \/ EnableBiometricAvailable(c)
       \/ EnableBiometricGet(c)
       \/ EnableBiometricRegister(c)
       \/ EnableBiometricPut(c)
       \/ DisableBiometricCall(c)
       \/ DisableBiometricGet(c)
       \/ DisableBiometricPut(c)
       \/ \E apiKey \in Secrets : SaveApiKeyCall(c, apiKey)
       \/ SaveApiKeyGet(c)
       \/ SaveApiKeyEncrypt(c)
       \/ SaveApiKeyPut(c)
       \/ \E password \in Passwords : UnlockApiKeyCall(c, password)
       \/ UnlockApiKeyGet(c)
       \/ UnlockApiKeyVerify(c)
       \/ UnlockApiKeyDecrypt(c)
       \/ \E password \in Passwords : DeleteAllCall(c, password)
       \/ DeleteAllGet(c)
       \/ DeleteAllVerify(c)
       \/ DeleteAllClearDailyEntries(c)
       \/ DeleteAllClearAuth(c)
       \/ DeleteAllClearExerciseHistory(c)

\* Spec covers MaxTicks * TickStep of clock time, less than any timer's delay:
\* there lock() stands for every caller of lock.
Spec == Init /\ [][Next]_vars

\* Session lifetime: one password, the page's events, timers and effects.
SessionPasswords == {"hunter22"}

NextSession ==
  \/ Elapse
  \/ InitHasAuthSetup
  \/ InitGetAuthData
  \/ Reload
  \/ Lock
  \/ CommitEffects
  \/ Activity
  \/ Hide
  \/ Show
  \/ \E id \in 1..MaxTimers : TimerFire(id)
  \/ \E c \in Serial :
       \/ \E password \in SessionPasswords : SetupCall(c, password)
       \/ SetupHash(c)
       \/ SetupPut(c)
       \/ \E password \in SessionPasswords : LoginCall(c, password)
       \/ LoginGet(c)
       \/ LoginVerify(c)
       \/ LoginPutSuccess(c)

SpecSession == Init /\ [][NextSession]_vars

\* Lockout policy: setup and password login on the lockout clock.
NextLockout ==
  \/ Wait
  \/ InitHasAuthSetup
  \/ InitGetAuthData
  \/ \E c \in Serial :
       \/ \E password \in Passwords : SetupCall(c, password)
       \/ SetupHash(c)
       \/ SetupPut(c)
       \/ \E password \in Passwords : LoginCall(c, password)
       \/ LoginGet(c)
       \/ LoginVerify(c)
       \/ LoginPutFailure(c)
       \/ LoginPutSuccess(c)

SpecLockout == Init /\ [][NextLockout]_vars

\* Page loads: initAuth with its error path, reloads, setup and login.
NextInit ==
  \/ InitHasAuthSetup
  \/ InitGetAuthData
  \/ InitCatch
  \/ Reload
  \/ \E c \in Serial :
       \/ \E password \in Passwords : SetupCall(c, password)
       \/ SetupHash(c)
       \/ SetupPut(c)
       \/ \E password \in Passwords : LoginCall(c, password)
       \/ LoginGet(c)
       \/ LoginVerify(c)
       \/ LoginPutFailure(c)
       \/ LoginPutSuccess(c)

SpecInit == Init /\ [][NextInit]_vars

\* Durable storage: the credential store, the session record and the
\* local settings, with calls that never overlap.
NextStorage ==
  \/ InitHasAuthSetup
  \/ InitGetAuthData
  \/ Lock
  \/ \E apiKey \in Secrets : SetApiKey(apiKey)
  \/ \E c \in Serial :
       \/ \E password \in Passwords : SetupCall(c, password)
       \/ SetupHash(c)
       \/ SetupPut(c)
       \/ \E password \in Passwords : LoginCall(c, password)
       \/ LoginGet(c)
       \/ LoginVerify(c)
       \/ LoginPutFailure(c)
       \/ LoginPutSuccess(c)
       \/ LoginDecrypt(c)
       \/ \E apiKey \in Secrets : SaveApiKeyCall(c, apiKey)
       \/ SaveApiKeyGet(c)
       \/ SaveApiKeyEncrypt(c)
       \/ SaveApiKeyPut(c)

SpecStorage == Init /\ [][NextStorage]_vars

\* The setup and login screens as App renders them, on the lockout clock.
NextScreens ==
  \/ InitHasAuthSetup
  \/ InitGetAuthData
  \/ Reload
  \/ Render
  \/ Countdown
  \/ Lock
  \/ SetupScreenBiometric
  \/ \E c \in Serial :
       \/ \E password, confirmPassword \in Passwords :
            HandleCreateAccount(c, password, confirmPassword)
       \/ SetupHash(c)
       \/ SetupPut(c)
       \/ SetupScreenResult(c)
       \/ \E password \in Passwords : HandlePasswordLogin(c, password)
       \/ LoginGet(c)
       \/ LoginVerify(c)
       \/ LoginPutFailure(c)
       \/ LoginPutSuccess(c)
       \/ LoginScreenResult(c)

SpecScreens == Init /\ [][NextScreens]_vars

\* Overlapping calls: a second call may start while the first is awaiting.
\* One password; setup, login, saveApiKey, enableBiometric, disableBiometric.
NextOverlap ==
  \/ InitHasAuthSetup
  \/ InitGetAuthData
  \/ \E c \in Slots :
       \/ \E password \in SessionPasswords : SetupCall(c, password)
       \/ SetupHash(c)
       \/ SetupPut(c)
       \/ \E password \in SessionPasswords : LoginCall(c, password)
       \/ LoginGet(c)
       \/ LoginVerify(c)
       \/ LoginPutSuccess(c)
       \/ LoginDecrypt(c)
       \/ EnableBiometricCall(c)
       \/ EnableBiometricAvailable(c)
       \/ EnableBiometricGet(c)
       \/ EnableBiometricRegister(c)
       \/ EnableBiometricPut(c)
       \/ DisableBiometricCall(c)
       \/ DisableBiometricGet(c)
       \/ DisableBiometricPut(c)
       \/ \E apiKey \in Secrets : SaveApiKeyCall(c, apiKey)
       \/ SaveApiKeyGet(c)
       \/ SaveApiKeyEncrypt(c)
       \/ SaveApiKeyPut(c)

SpecOverlap == Init /\ [][NextOverlap]_vars

\* Overlapping logins, right and wrong passwords, on the account of setup.
NextOverlapLogin ==
  \/ InitHasAuthSetup
  \/ InitGetAuthData
  \/ \E c \in Slots :
       \/ \E password \in SessionPasswords : SetupCall(c, password)
       \/ SetupHash(c)
       \/ SetupPut(c)
       \/ \E password \in Passwords : LoginCall(c, password)
       \/ LoginGet(c)
       \/ LoginVerify(c)
       \/ LoginPutFailure(c)
       \/ LoginPutSuccess(c)

SpecOverlapLogin == Init /\ [][NextOverlapLogin]_vars

\* A setup call that overlaps the login and saveApiKey calls of a session.
SavedSecrets == {"sk-abc123"}

NextResetup ==
  \/ InitHasAuthSetup
  \/ InitGetAuthData
  \/ \E c \in Slots \ Serial :
       \/ \E password \in Passwords : SetupCall(c, password)
       \/ SetupHash(c)
       \/ SetupPut(c)
  \/ \E c \in Serial :
       \/ \E password \in Passwords : LoginCall(c, password)
       \/ LoginGet(c)
       \/ LoginVerify(c)
       \/ LoginPutFailure(c)
       \/ LoginPutSuccess(c)
       \/ LoginDecrypt(c)
       \/ \E apiKey \in SavedSecrets : SaveApiKeyCall(c, apiKey)
       \/ SaveApiKeyGet(c)
       \/ SaveApiKeyEncrypt(c)
       \/ SaveApiKeyPut(c)

SpecResetup == Init /\ [][NextResetup]_vars

\* ------------------------------------------------------------------ claims
IsLocked(result) == "locked" \in DOMAIN result /\ result.locked

IsSuccess(result) == "success" \in DOMAIN result /\ result.success

IsError(result) == "success" \in DOMAIN result /\ ~result.success

\* the step of call c that leaves program point pc of operation op
Leaves(c, op, pc) == At(c, op, pc) /\ calls'[c] # calls[c]

\* the password hashes to the stored hash under the stored salt
Matches(password, authData) ==
  /\ authData # null
  /\ IsBase64(authData.salt)
  /\ authData.passwordHash = hashPassword(password, authData.salt.b64).hash

\* C1: once 5 consecutive login verifications have failed, with no success in
\* between, a login whose lockout check runs less than 30 s after the 5th
\* failure returns Locked, whatever its password: it neither succeeds nor
\* reports a failed verification.
C1_SixthAttemptLocked ==
  [][\A c \in Slots :
       (Leaves(c, "login", "get") /\ failStreak = 5
          /\ now < lastFailAt + 30 * 1000)
       => (calls'[c].pc = "done" /\ IsLocked(calls'[c].result)
             /\ ~IsSuccess(calls'[c].result))]_vars

\* C1 witness: a login with the correct password was refused as Locked after
\* five consecutive failures
C1_Witness ==
  \E c \in Slots :
    /\ At(c, "login", "done") /\ IsLocked(calls[c].result)
    /\ failStreak = 5 /\ Matches(calls[c].password, auth)

\* C2: whenever the session is not authenticated, the in-memory decrypted
\* secret and the in-memory password are both empty.
C2_NoSecretWhenLocked ==
  ~authState.isAuthenticated
    => (decryptedApiKey = NoString /\ currentPassword = NoString)

\* C3: after a biometric login from the Locked state with a stored secret, the
\* in-memory secret stays empty until unlockApiKey or loginWithPassword is
\* called with the correct password.
C3_BiometricKeepsSecretLocked == bioOnly => decryptedApiKey = NoString

\* C4: a login whose lockout check finds lockoutUntil > now returns Locked
\* without starting password verification and leaves the persisted record, the
\* session and the in-memory secret material unchanged.
C4_LockedLoginChangesNothing ==
  [][\A c \in Slots :
       (Leaves(c, "login", "get") /\ auth # null /\ auth.lockoutUntil > now)
       => /\ calls'[c].pc = "done"
          /\ IsLocked(calls'[c].result)
          /\ auth' = auth /\ session' = session
          /\ decryptedApiKey' = decryptedApiKey
          /\ currentPassword' = currentPassword
          /\ authState' = authState]_vars

\* C4 witness: a login was refused as Locked while the lockout is running
C4_Witness ==
  \E c \in Slots :
    /\ At(c, "login", "done") /\ IsLocked(calls[c].result)
    /\ auth # null /\ auth.lockoutUntil > now

\* C5: unlockApiKey is refused with Locked while lockoutUntil > now, a wrong
\* password increments the persisted failedAttempts, and a correct password
\* resets failedAttempts to 0.
C5_UnlockGatedLikeLogin ==
  [][\A c \in Slots :
       /\ (Leaves(c, "unlockApiKey", "get") /\ auth # null
             /\ auth.lockoutUntil > now)
          => (calls'[c].pc = "done" /\ IsLocked(calls'[c].result))
       /\ (Leaves(c, "unlockApiKey", "verify") /\ auth.failedAttempts < 4
             /\ ~Matches(calls[c].password, auth))
          => (calls'[c].pending # null
                /\ calls'[c].pending.failedAttempts = auth.failedAttempts + 1)
       /\ (Leaves(c, "unlockApiKey", "verify")
             /\ Matches(calls[c].password, auth))
          => (calls'[c].pending # null
                /\ calls'[c].pending.failedAttempts = 0)]_vars

\* C6: while lockoutUntil > now, deleteAll is refused and deletes nothing,
\* even with the correct password.
C6_WipeGatedByLockout ==
  [][\A c \in Slots :
       (Leaves(c, "deleteAll", "get") /\ auth # null /\ auth.lockoutUntil > now)
       => (calls'[c].pc = "done" /\ IsError(calls'[c].result))]_vars

\* C7: deleteAll with the correct password ends with every table empty, no
\* AuthRecord, no secret, password or session in memory, and the state
\* needsSetup / not authenticated; with a wrong password it returns an error
\* and changes neither the persisted state, the session nor the memory.
C7_Wipe ==
  [][\A c \in Slots :
       /\ (Leaves(c, "deleteAll", "verify") /\ Matches(calls[c].password, auth))
          => calls'[c].pc = "clearDailyEntries"
       /\ (calls[c].op = "deleteAll" /\ calls[c].pc # "done"
             /\ calls'[c].pc = "done" /\ IsSuccess(calls'[c].result))
          => /\ auth' = null /\ dailyEntries' = {} /\ exerciseHistory' = {}
             /\ decryptedApiKey' = NoString /\ currentPassword' = NoString
             /\ session' = null
             /\ authState'.needsSetup /\ ~authState'.isAuthenticated
       /\ (Leaves(c, "deleteAll", "verify") /\ ~Matches(calls[c].password, auth))
          => /\ calls'[c].pc = "done" /\ IsError(calls'[c].result)
             /\ persisted' = persisted /\ session' = session
             /\ memory' = memory]_vars

\* C7 witness: a wipe with the correct password has completed on an account
\* that had stored records
C7_Witness ==
  \E c \in Slots :
    /\ At(c, "deleteAll", "done") /\ IsSuccess(calls[c].result)
    /\ auth = null /\ dailyEntries = {} /\ authState.needsSetup
    /\ salts > 0

\* C8: setupAccount called while an AuthRecord exists fails and leaves the
\* record unchanged.
C8_SetupNeverOverwrites ==
  [][\A c \in Slots :
       (Leaves(c, "setup", "put") /\ auth # null /\ auth.passwordHash # null)
       => (auth' = auth /\ IsError(calls'[c].result))]_vars

\* C9: the persisted ciphertext and nonce decrypt, under every password that
\* verifies against the record, to the plaintext last saved, and a login that
\* completes leaves exactly that plaintext in memory.
C9_PersistedDecrypts ==
  (auth # null /\ savedSecret # NoString)
    => \A p \in Passwords :
         Matches(p, auth)
           => decryptData(auth.encryptedApiKey, auth.apiKeyIV, p, auth.salt)
                = [ok |-> TRUE, value |-> savedSecret]

C9_RoundTrip ==
  /\ []C9_PersistedDecrypts
  /\ [][\A c \in Slots :
          (calls[c].op = "login" /\ calls[c].pc # "done" /\ calls'[c].pc = "done"
             /\ IsSuccess(calls'[c].result))
          => decryptedApiKey' = savedSecret]_vars

\* C9 witness: after a save and a lock, a login has put the saved plaintext
\* back in memory
C9_Witness ==
  \E c \in Slots :
    /\ At(c, "login", "done") /\ IsSuccess(calls[c].result)
    /\ savedSecret \in Secrets /\ decryptedApiKey = savedSecret

\* C10: lock() leaves no secret, no password and no session record, sets
\* isAuthenticated to false, keeps the persisted AuthRecord, and applied to
\* its own result changes nothing.
C10_Lock ==
  LET s == lock(LockView)
  IN /\ s.decryptedApiKey = NoString /\ s.currentPassword = NoString
     /\ s.session = null /\ ~s.authState.isAuthenticated
     /\ s.auth = auth
     /\ lock(s) = s

\* C10 witness: an account with a saved secret is locked (only lock() ends an
\* authenticated session while the account exists)
C10_Witness ==
  /\ auth # null /\ savedSecret # NoString
  /\ ~authState.isAuthenticated /\ session = null
  /\ decryptedApiKey = NoString /\ currentPassword = NoString

\* C11: whenever the loaded application is not authenticated, sessionStorage
\* holds no session record, so that initAuth after a reload finds nothing to
\* restore.
C11_NoSessionWhenLocked ==
  (~authState.isLoading /\ ~authState.isAuthenticated) => session = null

IdleTimers(pending) == {t \in pending : t.fn = "idle"}

BlurTimers(pending) == {t \in pending : t.fn = "blur"}

\* a lock() that some blur timer's callback makes
BlurTimerFires == \E t \in BlurTimers(timers) : TimerFire(t.id)

\* C12: an activity signal at time T while authenticated leaves one idle timer
\* due at T + 30 min; until then the session ends only by the lock button, a
\* visibility event or a reload; the timer is cancelled by nothing but a
\* later reset or a lock, the clock does not pass T + 30 min while it is
\* pending, and when it fires at T + 30 min the session is locked.
C12_IdleTimeout ==
  /\ [][(Activity /\ authState.isAuthenticated)
          => /\ lastActivityRef' = now
             /\ \E t \in timers' :
                  /\ t.id = sessionTimeoutRef' /\ t.fn = "idle"
                  /\ t.at = now + 30 * 60 * 1000]_vars
  /\ [][(/\ authState.isAuthenticated /\ ~authState'.isAuthenticated
          /\ \E t \in IdleTimers(timers) : now < t.at)
          => (Lock \/ Show \/ Reload \/ BlurTimerFires)]_vars
  /\ [][\A t \in IdleTimers(timers) :
          t \notin timers'
            => (TimerFire(t.id) \/ Activity \/ CommitEffects \/ Lock \/ Show
                  \/ Reload \/ BlurTimerFires)]_vars
  /\ [][\A t \in IdleTimers(timers) :
          TimerFire(t.id)
            => (now = t.at /\ t.at = lastActivityRef + 30 * 60 * 1000
                  /\ ~authState'.isAuthenticated)]_vars
  /\ [](\A t \in IdleTimers(timers) : now <= t.at)

\* C12 witness: the idle timer set by an activity signal after the session
\* began has fired 30 minutes later and the session is locked
C12_Witness ==
  /\ lastAutoLock # null /\ lastAutoLock.by = "idle"
  /\ lastAutoLock.authenticated /\ lastAutoLock.reset
  /\ lastAutoLock.delay = 30 * 60 * 1000
  /\ now = lastActivityRef + 30 * 60 * 1000
  /\ ~authState.isAuthenticated /\ session = null

\* C13: at most one idle timer is pending, it is the one the latest reset
\* scheduled, and an idle timer that fires is that one.
C13_OneIdleTimer ==
  /\ [](/\ Cardinality(IdleTimers(timers)) <= 1
        /\ \A t \in IdleTimers(timers) :
             t.id = sessionTimeoutRef /\ t.setAt = lastActivityRef)
  /\ [][\A t \in IdleTimers(timers) :
          TimerFire(t.id)
            => (t.id = sessionTimeoutRef /\ t.setAt = lastActivityRef)]_vars

\* C13 witness: the session is alive after the deadline of the timer that a
\* later reset replaced, with the replacing timer as the only one pending
C13_Witness ==
  /\ authState.isAuthenticated /\ sessionStart # NoTime
  /\ sessionStart < lastActivityRef
  /\ now >= sessionStart + SESSION_TIMEOUT
  /\ \E t \in timers : timers = {t} /\ t.setAt = lastActivityRef

C15_ExpiryOnForeground ==
  /\ [][(Activity /\ authState.isAuthenticated)
          => session' = [expiresAt |-> now + 30 * 60 * 1000]]_vars
  /\ [][(Show /\ authState.isAuthenticated /\ session # null
            /\ session.expiresAt <= now)
          => (~authState'.isAuthenticated /\ session' = null
                /\ decryptedApiKey' = NoString
                /\ currentPassword' = NoString)]_vars

\* C15 witness: the page came to the foreground at the session's expiry time
\* and the expiry test locked the session
C15_Witness ==
  /\ lastAutoLock # null /\ lastAutoLock.by = "expiry"
  /\ lastAutoLock.authenticated /\ lastAutoLock.delay >= 0
  /\ ~hidden /\ ~authState.isAuthenticated /\ session = null

\* a step in which lock() runs: the lock button, a timer callback, or the
\* expiry test on return to the foreground
LockRuns ==
  \/ Lock
  \/ \E t \in timers : TimerFire(t.id)
  \/ Show /\ mounted /\ Expired(session)

\* C16: when lock() returns, no idle or blur timer is pending.
C16_LockCancelsAllTimers == [][LockRuns => timers' = {}]_vars

\* C17: a timer that fires on an authenticated session was set during that
\* session, not before it began.
C17_TimerOfThisSession ==
  [][\A t \in timers :
       (TimerFire(t.id) /\ authState.isAuthenticated)
         => t.setAt >= sessionStart]_vars

\* C18: a login whose verification fails goes on to write the record with
\* failedAttempts incremented; below 5 the lockoutUntil stays as it was and
\* the result reports 5 - count attempts remaining; at 5 the record gets
\* failedAttempts = 0 and lockoutUntil = (time of the verification) + 30 s and
\* the result is the lockout outcome.  Nothing else of the record changes.
C18_RecordFailure ==
  /\ [][\A c \in Slots :
          (Leaves(c, "login", "verify") /\ auth # null /\ IsBase64(auth.salt)
             /\ ~Matches(calls[c].password, auth))
          => calls'[c].pc = "putFailure"]_vars
  /\ [][\A c \in Slots :
          Leaves(c, "login", "putFailure")
          => LET count == auth.failedAttempts + 1
                 result == calls'[c].result
             IN /\ calls'[c].pc = "done"
                /\ IF count < 5
                   THEN /\ auth' = [auth EXCEPT !.failedAttempts = count]
                        /\ ~IsLocked(result) /\ IsError(result)
                        /\ result.attemptsRemaining = 5 - count
                   ELSE /\ auth' = [auth EXCEPT !.failedAttempts = 0,
                                      !.lockoutUntil = lastFailAt + 30 * 1000]
                        /\ IsLocked(result)]_vars

\* C18 witness: the fifth consecutive failure has been recorded as a lockout
C18_Witness ==
  \E c \in Slots :
    /\ At(c, "login", "done") /\ IsLocked(calls[c].result)
    /\ ~Matches(calls[c].password, auth)
    /\ failStreak = 5 /\ lastFailAt = now
    /\ auth # null
    /\ auth.failedAttempts = 0 /\ auth.lockoutUntil = now + 30 * 1000

\* C19: a login whose verification succeeds writes failedAttempts = 0 and no
\* lockoutUntil, and the first failed login after a success (or after setup)
\* reports 4 attempts remaining.
C19_RecordSuccess ==
  /\ [][\A c \in Slots :
          (Leaves(c, "login", "verify") /\ Matches(calls[c].password, auth))
          => calls'[c].pc = "putSuccess"]_vars
  /\ [][\A c \in Slots :
          Leaves(c, "login", "putSuccess")
          => auth' = [auth EXCEPT !.failedAttempts = 0,
                                  !.lockoutUntil = NoTime]]_vars
  /\ [][\A c \in Slots :
          (Leaves(c, "login", "putFailure") /\ failStreak = 1)
          => calls'[c].result.attemptsRemaining = 4]_vars

\* C19 witness: on the only account ever set up, a login succeeded after
\* failed ones and the persisted counter is 0
C19_Witness ==
  \E c \in Slots :
    /\ At(c, "login", "done") /\ IsSuccess(calls[c].result)
    /\ salts = 1 /\ lastFailAt # NoTime /\ failStreak = 0
    /\ auth # null
    /\ auth.failedAttempts = 0 /\ auth.lockoutUntil = NoTime

\* C20: with a lockoutUntil in the record, a login whose lockout check runs
\* before lockoutUntil is refused as Locked, and one whose check runs at or
\* after lockoutUntil has its password verified and ends in the success or
\* the failure branch.
C20_LockoutExpiry ==
  /\ [][\A c \in Slots :
          (Leaves(c, "login", "get") /\ auth # null
             /\ auth.lockoutUntil # NoTime)
          => IF now < auth.lockoutUntil
             THEN calls'[c].pc = "done" /\ IsLocked(calls'[c].result)
             ELSE calls'[c].pc = "verify"]_vars
  /\ [][\A c \in Slots :
          (Leaves(c, "login", "verify") /\ auth # null /\ IsBase64(auth.salt))
          => calls'[c].pc = IF Matches(calls[c].password, auth)
                            THEN "putSuccess" ELSE "putFailure"]_vars

\* C20 witness: after the lockout time has passed, a wrong password was
\* verified and counted as the first failure
C20_Witness ==
  \E c \in Slots :
    /\ At(c, "login", "done") /\ ~IsLocked(calls[c].result)
    /\ IsError(calls[c].result)
    /\ auth # null
    /\ auth.lockoutUntil # NoTime /\ now > auth.lockoutUntil
    /\ auth.failedAttempts = 1

\* C21: when a login call that verified its password returns, its update of
\* the record is already in the credential store: with "n attempts remaining"
\* the stored failedAttempts is 5 - n, with a newly activated lockout the
\* stored record has failedAttempts = 0 and lockoutUntil = (time of the
\* failed verification) + 30 s, and with success it has failedAttempts = 0
\* and no lockoutUntil.
C21_WrittenBeforeReturn ==
  [][\A c \in Slots :
       (calls[c].op = "login" /\ calls[c].pc \in {"putFailure", "putSuccess", "decrypt"}
          /\ calls'[c].pc = "done")
       => LET result == calls'[c].result
          IN /\ auth' # null
             /\ IsSuccess(result)
                  => auth'.failedAttempts = 0 /\ auth'.lockoutUntil = NoTime
             /\ "attemptsRemaining" \in DOMAIN result
                  => auth'.failedAttempts = 5 - result.attemptsRemaining
             /\ IsLocked(result)
                  => /\ auth'.failedAttempts = 0
                     /\ auth'.lockoutUntil = lastFailAt + 30 * 1000
             /\ (IsSuccess(result) \/ IsLocked(result)
                   \/ "attemptsRemaining" \in DOMAIN result)]_vars

\* C21 witness: a login has reported 3 attempts remaining and the stored
\* counter is 2
C21_Witness ==
  \E c \in Slots :
    /\ At(c, "login", "done")
    /\ "attemptsRemaining" \in DOMAIN calls[c].result
    /\ calls[c].result.attemptsRemaining = 3
    /\ auth # null /\ auth.failedAttempts = 2

\* the step that calls operation op on slot c
Calls(c, op) ==
  calls[c].pc \in {"idle", "done"} /\ calls'[c] # calls[c] /\ calls'[c].op = op

\* C23: saveApiKey called while no password is held in memory returns an
\* error at once and changes neither the stored record nor the in-memory
\* secret.  Called with a password held, it reads the record, encrypts and
\* writes: the write stores a ciphertext and an IV together that decrypt,
\* under the held password and the record's salt, to the plaintext given, it
\* sets the in-memory secret to that plaintext and the call succeeds.
C23_SaveNeedsPassword ==
  /\ [][\A c \in Slots :
          Calls(c, "saveApiKey")
          => IF currentPassword = NoString
             THEN /\ calls'[c].pc = "done" /\ IsError(calls'[c].result)
                  /\ auth' = auth /\ decryptedApiKey' = decryptedApiKey
             ELSE /\ calls'[c].pc = "get"
                  /\ calls'[c].password = currentPassword]_vars
  /\ [][\A c \in Slots :
          /\ (Leaves(c, "saveApiKey", "get") /\ auth # null)
               => calls'[c].pc = "encrypt"
          /\ (Leaves(c, "saveApiKey", "encrypt") /\ auth # null
                /\ IsBase64(auth.salt))
               => calls'[c].pc = "put"
          /\ Leaves(c, "saveApiKey", "put")
               => /\ calls'[c].pc = "done" /\ IsSuccess(calls'[c].result)
                  /\ auth' # null
                  /\ auth'.encryptedApiKey # null /\ auth'.apiKeyIV # null
                  /\ auth'.encryptedApiKey # auth.encryptedApiKey
                  /\ decryptData(auth'.encryptedApiKey, auth'.apiKeyIV,
                                 calls[c].password, auth'.salt)
                       = [ok |-> TRUE, value |-> calls[c].apiKey]
                  /\ decryptedApiKey' = calls[c].apiKey]_vars

\* C23 witness: in a session opened by biometric login, with a secret saved
\* earlier under the password, saveApiKey was refused for want of a password
C23_Witness ==
  \E c \in Slots :
    /\ At(c, "saveApiKey", "done") /\ IsError(calls[c].result)
    /\ authState.isAuthenticated /\ currentPassword = NoString
    /\ savedSecret # NoString
    /\ auth # null /\ auth.encryptedApiKey # null /\ auth.biometricEnabled

\* C22: when a login has verified its password and the decryption of the
\* stored secret then fails, the login still succeeds: the call returns
\* success, the session is authenticated with a session record, the stored
\* failedAttempts is 0 and the in-memory secret is empty.
C22_DecryptFailureStillLogsIn ==
  [][\A c \in Slots :
       (Leaves(c, "login", "decrypt") /\ calls[c].authData # null
          /\ Matches(calls[c].password, calls[c].authData)
          /\ ~decryptData(calls[c].authData.encryptedApiKey,
                          calls[c].authData.apiKeyIV, calls[c].password,
                          calls[c].authData.salt).ok)
       => /\ calls'[c].pc = "done" /\ IsSuccess(calls'[c].result)
          /\ authState'.isAuthenticated /\ session' # null
          /\ auth' # null /\ auth'.failedAttempts = 0
          /\ decryptedApiKey' = NoString]_vars

\* C22 witness: a login with the account's password has succeeded although
\* the stored ciphertext does not decrypt under that password
C22_Witness ==
  \E c \in Slots :
    /\ At(c, "login", "done") /\ IsSuccess(calls[c].result)
    /\ Matches(calls[c].password, auth)
    /\ auth.encryptedApiKey # null /\ auth.apiKeyIV # null
    /\ ~decryptData(auth.encryptedApiKey, auth.apiKeyIV, calls[c].password,
                    auth.salt).ok
    /\ authState.isAuthenticated /\ decryptedApiKey = NoString
    /\ auth.failedAttempts = 0

\* C24: in the stored record, encryptedApiKey and apiKeyIV are both null or
\* both present, whatever the interleaving of setup, login, saveApiKey,
\* enableBiometric and disableBiometric calls.
C24_SecretPairConsistent ==
  auth # null => ((auth.encryptedApiKey = null) <=> (auth.apiKeyIV = null))

\* C24 witness: the stored record holds a ciphertext with its IV while an
\* overlapping enableBiometric or disableBiometric call is about to write
\* back a record it read before the secret was saved
C24_Witness ==
  /\ auth # null /\ auth.encryptedApiKey # null /\ auth.apiKeyIV # null
  /\ \E c \in Slots :
       /\ calls[c].op \in {"enableBiometric", "disableBiometric"}
       /\ calls[c].pc = "put"
       /\ calls[c].pending.encryptedApiKey = null

\* C28: a ciphertext and IV stored by a completed saveApiKey stay in the
\* stored record on every step other than the write of a later saveApiKey,
\* the write of a setup, or a wipe, also when enableBiometric or
\* disableBiometric writes back a record it read earlier.
C28_SavedSecretKept ==
  [][(/\ auth # null /\ auth.encryptedApiKey # null
      /\ auth' # null
      /\ \A c \in Slots : ~Leaves(c, "saveApiKey", "put")
                          /\ ~Leaves(c, "setup", "put"))
     => /\ auth'.encryptedApiKey = auth.encryptedApiKey
        /\ auth'.apiKeyIV = auth.apiKeyIV]_vars

\* the fields of the record that no login writes
Account(authData) ==
  [authData EXCEPT !.failedAttempts = 0, !.lockoutUntil = NoTime]

\* C29: every failed verification is counted, also when logins overlap: the
\* write that follows a failed verification advances the stored failure
\* state by one failure, from the count stored at the time of the write (to
\* count + 1 below 5, to a lockout at 5), on the account the login read.
C29_OverlappingFailuresCounted ==
  [][\A c \in Slots :
       (Leaves(c, "login", "putFailure") /\ auth # null
          /\ Account(auth) = Account(calls[c].authData)
          /\ ~LockedOut(auth))
       => LET count == auth.failedAttempts + 1
          IN IF count < 5
             THEN auth'.failedAttempts = count
             ELSE auth'.failedAttempts = 0 /\ auth'.lockoutUntil # NoTime]_vars

\* C30: the setup screen is exposed (needsSetup) only while no record with a
\* password hash is stored, also after initAuth has failed on a storage
\* error or an unreadable session record.
C30_SetupOnlyWithoutAccount ==
  authState.needsSetup => (auth = null \/ auth.passwordHash = null)

\* a stored value that is absent or an encoded hash, salt, ciphertext, IV or
\* credential id, never a bare string
Derived(x) == x = null \/ IsBase64(x)

\* C25: durable storage never holds the secret or the password in
\* plaintext: the local settings hold neither, the session record holds only
\* its expiry, and the stored record holds only encoded derived values.
C25_NoPlaintextPersisted ==
  /\ settings.apiKey \notin (Secrets \cup Passwords)
  /\ session # null => DOMAIN session = {"expiresAt"}
  /\ auth # null =>
       \A f \in {"passwordHash", "salt", "encryptedApiKey", "apiKeyIV",
                 "biometricCredentialId"} : Derived(auth[f])

\* C26: on the login screen a positive remaining-seconds countdown decreases
\* whenever time passes, and it is positive only while the stored lockout is
\* running: once the lockout time has passed the countdown is 0 and a
\* password can be submitted again, with no reload.
C26_CountdownEnds ==
  /\ [][(now' > now /\ loginScreen.mounted /\ loginScreen'.mounted
           /\ loginScreen.lockoutRemaining > 0)
        => loginScreen'.lockoutRemaining < loginScreen.lockoutRemaining]_vars
  /\ [](loginScreen.mounted /\ loginScreen.lockoutRemaining > 0
          => auth # null /\ LockedOut(auth))

\* C27: when the main application replaces the setup screen after an account
\* was created on it, the setup screen has reached its biometric step or its
\* complete step.
C27_SetupStepsShown ==
  [][(Screen = "setup" /\ setupScreen.mounted /\ Screen' = "main")
       => setupScreen.step \in {"biometric", "complete"}]_vars

====
